---- MODULE Spec2Model ----
(***************************************************************************)
(* gardion/harvester: the streaming Input abstraction (FileInput,          *)
(* UrlInput) and the cancellable chunk pump hostsfile_adapter.             *)
(*                                                                         *)
(* Bytes are integers 0..255.  The alphabet the streams are drawn from is  *)
(* 'a' (97), ' ' (32), '\n' (10) and 0xFF (255), a byte that never occurs  *)
(* in well-formed UTF-8.                                                   *)
(***************************************************************************)
EXTENDS Integers, Sequences, FiniteSets, TLC

\* Longest byte stream a source holds.
MaxLen == 3

Alphabet == {97, 32, 10, 255}

RECURSIVE SeqsUpTo(_, _)
SeqsUpTo(S, n) ==
    IF n = 0 THEN {<<>>}
    ELSE LET shorter == SeqsUpTo(S, n - 1)
         IN  shorter \cup {Append(s, b) : s \in {t \in shorter : Len(t) = n - 1}, b \in S}

Streams == SeqsUpTo(Alphabet, MaxLen)

\* Descriptions carried by the anyhow errors an Input's chunk() may return.
ChunkErrors == {"open failed", "read failed"}

\* Description of the io::Error a failed write_all returns.
WriteError == "write failed"

VARIABLES
    procs,          \* the pumps (hostsfile_adapter futures) that were spawned
    rdr,            \* rdr[p]: the Input (Arc<Mutex<dyn Input>>) pump p was given
    wtr,            \* wtr[p]: the sink (Arc<Mutex<dyn Write>>) pump p was given
    pc,             \* pc[p]: where pump p stands in hostsfile_adapter
    is_processing,  \* the AtomicBool cancellation flag
    rxAlive,        \* a Receiver of the message channel still exists
    msgs,           \* messages the channel has accepted, in order
    sink,           \* sink[w]: bytes writer w has accepted, in order
    readerLock,     \* readerLock[i]: holder of the Mutex of Input i, 0 when free
    writerLock,     \* writerLock[w]: holder of the Mutex of sink w, 0 when free
    rest,           \* rest[i]: the dyn Input i: bytes not yet served
    res,            \* res[p]: value of the match scrutinee (chunk() result)
    out,            \* out[p]: the formatted record (local `chunk`, line 41)
    werr,           \* werr[p]: the write error bound by `if let Err(e)`
    got,            \* history: got[p] the Some payloads pump p received
    order,          \* history: order[i] the Some payloads Input i returned, in order
    nchunk,         \* history: chunk() calls made by pump p
    nwrite,         \* history: write_all calls made by pump p
    wfail,          \* history: write_all calls of pump p that failed
    nsend,          \* history: msg_tx.send calls made by pump p
    atCancel,       \* history: atCancel[p] what pump p had done when the flag fell
    kind,           \* the Input constructed: "file", "gz", "targz" (FileInput), "url"
    content,        \* the file's (decompressed) bytes, or the body the server serves
    cuts,           \* stream offsets at which the gzip decoder's reads end short
    archive,        \* the entries of the tar archive, in archive order
    handle,         \* FileInput.handle
    response,       \* UrlInput.response
    last,           \* history: the last call on the Input and what it returned
    trace,          \* history: Some payloads returned since construction or the last
                    \* successful reset(), while no call has failed since
    clean,          \* history: no call has failed since then
    via             \* history: "new", or how the last reset() went

\* What a pump is given when it is spawned.
wiring == <<procs, rdr, wtr>>

pumpVars == <<wiring, pc, is_processing, rxAlive, msgs, sink, readerLock, writerLock,
              rest, res, out, werr, got, order, nchunk, nwrite, wfail, nsend, atCancel>>

inputVars == <<kind, content, cuts, archive, handle, response, last, trace, clean, via>>

vars == <<pumpVars, inputVars>>

----------------------------------------------------------------------------
(* Pure functions of src/output/hostsfile.rs                               *)

\* String::from_utf8 succeeds: every byte below 0x80 is a one-byte scalar,
\* and 0xFF is no lead or continuation byte of any encoding.
IsUtf8(bytes) == \A i \in 1..Len(bytes) : bytes[i] < 128

\* char::is_whitespace on the alphabet.
IsWhitespace(b) == b \in {32, 10}

\* A trim that removes trailing newlines only.
RECURSIVE TrimEndNoSpace(_)
TrimEndNoSpace(s) ==
    IF s # <<>> /\ s[Len(s)] = 10 THEN TrimEndNoSpace(SubSeq(s, 1, Len(s) - 1)) ELSE s

\* line 41, str::trim_end: drop the longest suffix of whitespace.
RECURSIVE TrimEnd(_)
TrimEnd(s) ==
    IF s # <<>> /\ IsWhitespace(s[Len(s)]) THEN TrimEnd(SubSeq(s, 1, Len(s) - 1)) ELSE s

\* "0.0.0.0 "
HostPrefix == <<48, 46, 48, 46, 48, 46, 48, 32>>

\* format!("0.0.0.0 {}\n", str_chunk.trim_end())
Transform(str_chunk) == HostPrefix \o TrimEnd(str_chunk) \o <<10>>

----------------------------------------------------------------------------
(* chunk() results                                                         *)

NoRes == [tag |-> "-", data |-> <<>>, err |-> ""]
OkSome(bytes) == [tag |-> "Some", data |-> bytes, err |-> ""]
OkNone == [tag |-> "None", data |-> <<>>, err |-> ""]
ErrOf(e) == [tag |-> "Err", data |-> <<>>, err |-> e]

\* ChannelMessage::Error(format!("{}", e))
ErrorMsg(e) == [type |-> "Error", text |-> e]

\* The Input trait's chunk() as the pump sees it through dyn Input: a
\* non-empty next piece of the stream of any size, None once nothing is
\* left, or an error.  Each outcome pairs the result with the stream left.
DynChunk(stream) ==
    {[r |-> OkSome(SubSeq(stream, 1, k)), rest |-> SubSeq(stream, k + 1, Len(stream))] :
        k \in 1..Len(stream)}
    \cup (IF stream = <<>> THEN {[r |-> OkNone, rest |-> stream]} ELSE {})
    \cup {[r |-> ErrOf(e), rest |-> stream] : e \in ChunkErrors}

\* What a failing write_all may already have handed to the writer: nothing,
\* or everything but the last byte.
PartialWrites(bytes) == {<<>>, SubSeq(bytes, 1, Len(bytes) - 1)}

----------------------------------------------------------------------------
(* hostsfile_adapter, one action per step of pump p                         *)

\* Dropping the MutexGuard temporaries of the iteration.
Release(lock, p) == IF lock = p THEN 0 ELSE lock

\* A loop that does not consult the flag.
AfterCheckNoFlag(flag) == "lock_reader"

\* line 29: the load of is_processing decides between return and the read.
AfterCheck(flag) == IF ~flag THEN "done" ELSE "lock_reader"

CheckFlag(p) ==
    /\ pc[p] = "check"
    /\ pc' = [pc EXCEPT ![p] = AfterCheck(is_processing)]
    /\ UNCHANGED <<inputVars, wiring, is_processing, rxAlive, msgs, sink, readerLock,
                   writerLock, rest, res, out, werr, got, order, nchunk, nwrite, wfail,
                   nsend, atCancel>>

\* A lock that is handed out while another pump holds it.
LockReaderNoWait(p) ==
    /\ pc[p] = "lock_reader"
    /\ readerLock' = [readerLock EXCEPT ![rdr[p]] = p]
    /\ pc' = [pc EXCEPT ![p] = "chunk"]
    /\ UNCHANGED <<inputVars, wiring, is_processing, rxAlive, msgs, sink, writerLock,
                   rest, res, out, werr, got, order, nchunk, nwrite, wfail, nsend, atCancel>>

\* line 32: reader.lock().await
LockReader(p) ==
    /\ pc[p] = "lock_reader"
    /\ readerLock[rdr[p]] = 0
    /\ readerLock' = [readerLock EXCEPT ![rdr[p]] = p]
    /\ pc' = [pc EXCEPT ![p] = "chunk"]
    /\ UNCHANGED <<inputVars, wiring, is_processing, rxAlive, msgs, sink, writerLock,
                   rest, res, out, werr, got, order, nchunk, nwrite, wfail, nsend, atCancel>>

\* line 32: .chunk().await
CallChunk(p) ==
    /\ pc[p] = "chunk"
    /\ \E o \in DynChunk(rest[rdr[p]]) :
          /\ res' = [res EXCEPT ![p] = o.r]
          /\ rest' = [rest EXCEPT ![rdr[p]] = o.rest]
          /\ got' = [got EXCEPT ![p] = IF o.r.tag = "Some" THEN Append(@, o.r.data) ELSE @]
          /\ order' = [order EXCEPT ![rdr[p]] =
                          IF o.r.tag = "Some" THEN Append(@, o.r.data) ELSE @]
    /\ nchunk' = [nchunk EXCEPT ![p] = @ + 1]
    /\ pc' = [pc EXCEPT ![p] = "match"]
    /\ UNCHANGED <<inputVars, wiring, is_processing, rxAlive, msgs, sink, readerLock,
                   writerLock, out, werr, nwrite, wfail, nsend, atCancel>>

\* A decode failure that leaves the loop instead of continuing.
ArmOfInvalidBreaks(r) ==
    CASE r.tag = "Some" /\ IsUtf8(r.data) -> "lock_writer"
      [] r.tag = "Some" /\ ~IsUtf8(r.data) -> "done"
      [] r.tag = "None" -> "done"
      [] OTHER -> "send_chunk_err"

\* An undecodable chunk handled like a chunk() error.
ArmOfInvalidIsError(r) ==
    CASE r.tag = "Some" /\ IsUtf8(r.data) -> "lock_writer"
      [] r.tag = "None" -> "done"
      [] OTHER -> "send_chunk_err"

\* lines 33-41, 49-52: the arm taken, as the next position.
ArmOf(r) ==
    CASE r.tag = "Some" /\ IsUtf8(r.data) -> "lock_writer"
      [] r.tag = "Some" /\ ~IsUtf8(r.data) -> "check"
      [] r.tag = "None" -> "done"
      [] OTHER -> "send_chunk_err"

\* A reader guard that is dropped as soon as chunk() has returned.
MatchDropsGuardFirst(p) ==
    /\ pc[p] = "match"
    /\ LET arm == ArmOf(res[p]) IN
          /\ pc' = [pc EXCEPT ![p] = arm]
          /\ out' = [out EXCEPT ![p] = IF arm = "lock_writer" THEN Transform(res[p].data) ELSE @]
    /\ readerLock' = [readerLock EXCEPT ![rdr[p]] = Release(@, p)]
    /\ UNCHANGED <<inputVars, wiring, is_processing, rxAlive, msgs, sink, writerLock,
                   rest, res, werr, got, order, nchunk, nwrite, wfail, nsend, atCancel>>

\* A reader guard that outlives the `continue` and the `return`.
MatchKeepsGuard(p) ==
    /\ pc[p] = "match"
    /\ LET arm == ArmOf(res[p]) IN
          /\ pc' = [pc EXCEPT ![p] = arm]
          /\ out' = [out EXCEPT ![p] = IF arm = "lock_writer" THEN Transform(res[p].data) ELSE @]
    /\ UNCHANGED <<inputVars, wiring, is_processing, rxAlive, msgs, sink, readerLock,
                   writerLock, rest, res, werr, got, order, nchunk, nwrite, wfail, nsend,
                   atCancel>>

\* lines 32-41, 49-51: the match on the chunk() result.  The reader guard is a
\* temporary of the match scrutinee: it is dropped when the match is left, which
\* the `continue` of line 39 and the `return` of line 50 do at once, and the
\* other arms do only at their end.
Match(p) ==
    /\ pc[p] = "match"
    /\ LET arm == ArmOf(res[p]) IN
          /\ pc' = [pc EXCEPT ![p] = arm]
          /\ out' = [out EXCEPT ![p] = IF arm = "lock_writer" THEN Transform(res[p].data) ELSE @]
          /\ readerLock' = [readerLock EXCEPT ![rdr[p]] =
                               IF arm \in {"check", "done"} THEN Release(@, p) ELSE @]
    /\ UNCHANGED <<inputVars, wiring, is_processing, rxAlive, msgs, sink, writerLock,
                   rest, res, werr, got, order, nchunk, nwrite, wfail, nsend, atCancel>>

\* line 42: writer.lock().await
LockWriter(p) ==
    /\ pc[p] = "lock_writer"
    /\ writerLock[wtr[p]] = 0
    /\ writerLock' = [writerLock EXCEPT ![wtr[p]] = p]
    /\ pc' = [pc EXCEPT ![p] = "write"]
    /\ UNCHANGED <<inputVars, wiring, is_processing, rxAlive, msgs, sink, readerLock,
                   rest, res, out, werr, got, order, nchunk, nwrite, wfail, nsend, atCancel>>

\* line 42: write_all(chunk.as_bytes()) returns Ok(()); lines 47-48: the arm
\* ends, the writer guard and then the reader guard are dropped.
WriteOk(p) ==
    /\ pc[p] = "write"
    /\ sink' = [sink EXCEPT ![wtr[p]] = @ \o out[p]]
    /\ nwrite' = [nwrite EXCEPT ![p] = @ + 1]
    /\ writerLock' = [writerLock EXCEPT ![wtr[p]] = Release(@, p)]
    /\ readerLock' = [readerLock EXCEPT ![rdr[p]] = Release(@, p)]
    /\ pc' = [pc EXCEPT ![p] = "check"]
    /\ UNCHANGED <<inputVars, wiring, is_processing, rxAlive, msgs,
                   rest, res, out, werr, got, order, nchunk, wfail, nsend, atCancel>>

\* line 42: write_all(chunk.as_bytes()) returns Err(e)
WriteErr(p) ==
    /\ pc[p] = "write"
    /\ \E part \in PartialWrites(out[p]) : sink' = [sink EXCEPT ![wtr[p]] = @ \o part]
    /\ nwrite' = [nwrite EXCEPT ![p] = @ + 1]
    /\ wfail' = [wfail EXCEPT ![p] = @ + 1]
    /\ werr' = [werr EXCEPT ![p] = WriteError]
    /\ pc' = [pc EXCEPT ![p] = "send_write_err"]
    /\ UNCHANGED <<inputVars, wiring, is_processing, rxAlive, msgs, readerLock, writerLock,
                   rest, res, out, got, order, nchunk, nsend, atCancel>>

\* flume::Sender::send on an unbounded channel: Ok while a Receiver exists,
\* Err(SendError) once all are dropped; .unwrap() panics on the Err.
SendFails == ~rxAlive

\* lines 43-46: send(..).with_context(..).unwrap(), then the next iteration
AfterWriteErrSend == IF SendFails THEN "panicked" ELSE "check"

\* Both guards are dropped at the end of the arm, or by the unwinding panic.
SendWriteErr(p) ==
    /\ pc[p] = "send_write_err"
    /\ nsend' = [nsend EXCEPT ![p] = @ + 1]
    /\ msgs' = IF SendFails THEN msgs ELSE Append(msgs, ErrorMsg(werr[p]))
    /\ pc' = [pc EXCEPT ![p] = AfterWriteErrSend]
    /\ writerLock' = [writerLock EXCEPT ![wtr[p]] = Release(@, p)]
    /\ readerLock' = [readerLock EXCEPT ![rdr[p]] = Release(@, p)]
    /\ UNCHANGED <<inputVars, wiring, is_processing, rxAlive, sink,
                   rest, res, out, werr, got, order, nchunk, nwrite, wfail, atCancel>>

\* An Err arm that continues instead of breaking.
AfterChunkErrSendRetry == IF SendFails THEN "panicked" ELSE "check"

\* lines 53-57: send(..).with_context(..).unwrap(); break
AfterChunkErrSend == IF SendFails THEN "panicked" ELSE "done"

SendChunkErr(p) ==
    /\ pc[p] = "send_chunk_err"
    /\ nsend' = [nsend EXCEPT ![p] = @ + 1]
    /\ msgs' = IF SendFails THEN msgs ELSE Append(msgs, ErrorMsg(res[p].err))
    /\ pc' = [pc EXCEPT ![p] = AfterChunkErrSend]
    /\ readerLock' = [readerLock EXCEPT ![rdr[p]] = Release(@, p)]
    /\ UNCHANGED <<inputVars, wiring, is_processing, rxAlive, sink, writerLock,
                   rest, res, out, werr, got, order, nchunk, nwrite, wfail, atCancel>>

\* What pump p has done so far, and whether it is still running.
Progress(p) ==
    [c |-> nchunk[p], w |-> nwrite[p], running |-> pc[p] \notin {"done", "panicked"}]

\* The job owner requests a stop: is_processing.store(false).
Cancel ==
    /\ is_processing
    /\ is_processing' = FALSE
    /\ atCancel' = [p \in procs |-> Progress(p)]
    /\ UNCHANGED <<inputVars, wiring, pc, rxAlive, msgs, sink, readerLock, writerLock,
                   rest, res, out, werr, got, order, nchunk, nwrite, wfail, nsend>>

\* The last Receiver of the channel is dropped.
DropReceiver ==
    /\ rxAlive
    /\ rxAlive' = FALSE
    /\ UNCHANGED <<inputVars, wiring, pc, is_processing, msgs, sink, readerLock, writerLock,
                   rest, res, out, werr, got, order, nchunk, nwrite, wfail, nsend, atCancel>>

----------------------------------------------------------------------------
(* The concrete Inputs: FileInput (src/input/file.rs), UrlInput            *)
(* (src/input/url.rs)                                                      *)

\* const BUF_SIZE (1024 in the source, file.rs line 88), scaled down to the
\* streams of the model.
BufSize == 2

\* Most entries a tar archive holds.
MaxEntries == 2

\* StatusCode::OK
StatusOK == 200

\* Compression::TarGz(wanted_path_str)
WantedPath == "list.txt"

\* Content of archive members other than the one the configuration names.
Decoy == <<97, 97>>

\* An archive entry: readable or not (entry_result / entry.path() is Err),
\* its path, its data.
EntrySet(data) ==
    { [ok |-> TRUE, path |-> WantedPath, data |-> data],
      [ok |-> TRUE, path |-> WantedPath, data |-> Decoy],
      [ok |-> TRUE, path |-> "other.txt", data |-> Decoy],
      [ok |-> FALSE, path |-> WantedPath, data |-> Decoy] }

Archives(data) == SeqsUpTo(EntrySet(data), MaxEntries)

\* GzipDecoder's read returns at most the buffer's size and may return less.
\* Over an unchanged file the decoder is deterministic, so where its reads
\* end is a function of the stream offset: the set c of offsets, fixed with
\* the file.  End of the read that starts at offset pos of n bytes:
NextCut(c, n, pos) ==
    LET ends == {e \in (c \cup {n}) : e > pos}
    IN  CHOOSE e \in ends : \A f \in ends : e <= f

\* The ways a decoder may cut a stream of n bytes into reads of at most
\* BufSize bytes.
CutSets(n) ==
    {c \in SUBSET (1..(n - 1)) :
        \A pos \in ({0} \cup c) : pos < n => NextCut(c, n, pos) - pos <= BufSize}

NoHandle == [some |-> FALSE, variant |-> "-", data |-> <<>>, pos |-> 0]
HandleOf(variant, data) == [some |-> TRUE, variant |-> variant, data |-> data, pos |-> 0]

NoResponse == [some |-> FALSE, status |-> 0, clen |-> -1, body |-> <<>>, pos |-> 0]

OkUnit == [tag |-> "Ok", data |-> <<>>, err |-> ""]

\* A scan that keeps the last entry of the wanted path.
FirstMatchLast(entries) ==
    LET hits == {i \in 1..Len(entries) : entries[i].ok /\ entries[i].path = WantedPath}
    IN  IF hits = {} THEN 0 ELSE CHOOSE i \in hits : \A j \in hits : j <= i

\* lines 60-78: index of the first readable entry whose path is the wanted
\* one, 0 when the scan reaches the end of the archive without a match.
FirstMatch(entries) ==
    LET hits == {i \in 1..Len(entries) : entries[i].ok /\ entries[i].path = WantedPath}
    IN  IF hits = {} THEN 0 ELSE CHOOSE i \in hits : \A j \in hits : i <= j

\* FileInput::init_handle called with self.handle = h: the handle it leaves
\* and what it returns.  File::open may fail on any call.
InitHandle(h) ==
    {[h |-> h, r |-> ErrOf("unable to open file"), open |-> "file"]}
    \cup
    (CASE kind = "gz" -> {[h |-> HandleOf("Gz", content), r |-> OkUnit, open |-> "ok"]}
       [] kind = "targz" ->
            LET i == FirstMatch(archive) IN
            IF i = 0
            THEN {[h |-> h, r |-> ErrOf("specified list file not found in archive"),
                   open |-> "member"]}
            ELSE {[h |-> HandleOf("TarGz", archive[i].data), r |-> OkUnit, open |-> "ok"]}
       [] OTHER -> {[h |-> HandleOf("File", content), r |-> OkUnit, open |-> "ok"]})

\* Offset just after the line that starts at pos (the newline included).
LineEnd(data, pos) ==
    LET nls == {i \in (pos + 1)..Len(data) : data[i] = 10}
    IN  IF nls = {} THEN Len(data) ELSE CHOOSE i \in nls : \A j \in nls : i <= j

\* A plain file read in blocks of BUF_SIZE bytes like the archive member.
ReadEndBlocks(h) ==
    CASE h.variant = "Gz" -> NextCut(cuts, Len(h.data), h.pos)
      [] OTHER -> IF Len(h.data) - h.pos < BufSize THEN Len(h.data) ELSE h.pos + BufSize

\* Bytes the next read of handle h takes: a line (read_line), the decoder's
\* next read (read), or up to BUF_SIZE bytes (take(BUF_SIZE).read_to_end).
ReadEnd(h) ==
    CASE h.variant = "File" -> LineEnd(h.data, h.pos)
      [] h.variant = "Gz" -> NextCut(cuts, Len(h.data), h.pos)
      [] OTHER -> IF Len(h.data) - h.pos < BufSize THEN Len(h.data) ELSE h.pos + BufSize

\* lines 96-121: the match on the handle when the underlying read does not
\* fail: n > 0 gives Some, n = 0 gives None; read_line rejects a line that is
\* not UTF-8 after consuming it.
ReadOk(h) ==
    LET e == IF h.pos >= Len(h.data) THEN h.pos ELSE ReadEnd(h)
        bytes == SubSeq(h.data, h.pos + 1, e)
    IN  IF e = h.pos THEN [h |-> h, r |-> OkNone]
        ELSE IF h.variant = "File" /\ ~IsUtf8(bytes)
             THEN [h |-> [h EXCEPT !.pos = e], r |-> ErrOf("Error reading line from file")]
             ELSE [h |-> [h EXCEPT !.pos = e], r |-> OkSome(bytes)]

\* The same match when the read may also fail with an I/O error.
ReadHandle(h) ==
    {ReadOk(h)} \cup {[h |-> h, r |-> ErrOf("Error reading chunk from file")]}

\* FileInput::chunk (lines 87-122) on handle h: lazy open, then one read.
FileChunk(h) ==
    LET opened == IF h.some THEN {[h |-> h, r |-> OkUnit, open |-> "-"]} ELSE InitHandle(h)
    IN  UNION {IF o.r.tag = "Err" THEN {o}
               ELSE {[h |-> x.h, r |-> x.r, open |-> o.open] : x \in ReadHandle(o.h)} :
               o \in opened}

\* A reset that keeps a handle already open.
FileResetKeep(h) == IF h.some THEN {[h |-> h, r |-> OkUnit, open |-> "-"]} ELSE InitHandle(h)

\* FileInput::reset (lines 124-130): take the handle, then init_handle.
FileReset(h) == InitHandle(NoHandle)

\* reqwest::get(url).await: the request fails, or a response arrives.  The
\* server answers OK with the body, its length advertised (clen) or not
\* (clen = -1), or answers 404, that it has no such resource.
Get ==
    {[ok |-> FALSE, resp |-> NoResponse]}
    \cup {[ok |-> TRUE,
           resp |-> [some |-> TRUE, status |-> StatusOK, clen |-> c, body |-> content, pos |-> 0]] :
            c \in {-1, Len(content)}}
    \cup {[ok |-> TRUE,
           resp |-> [some |-> TRUE, status |-> 404, clen |-> -1, body |-> <<>>,
                     pos |-> 0]]}

\* lines 24-26 and 48-50: the request is issued only when no response is held.
Requested(resp) ==
    IF resp.some THEN {[resp |-> resp, r |-> OkUnit, open |-> "-"]}
    ELSE {IF g.ok THEN [resp |-> g.resp, r |-> OkUnit, open |-> "ok"]
          ELSE [resp |-> resp, r |-> ErrOf("error sending request"), open |-> "transport"] :
          g \in Get}

\* line 33, Response::content_length(): reqwest answers with the exact size
\* hint of the response body, which for a body of advertised length is the
\* count of bytes not yet delivered; -1 stands for None.
ContentLength(resp) == IF resp.clen = -1 THEN -1 ELSE resp.clen - resp.pos

\* lines 28-45: validation of the held response, then the next body chunk,
\* of whatever size the transport delivers, or a transport error.
UrlRead(resp, open) ==
    IF resp.status # StatusOK
    THEN {[resp |-> resp, r |-> ErrOf("status code"),
           open |-> IF open = "ok" THEN "status" ELSE open]}
    ELSE IF ContentLength(resp) = 0
    THEN {[resp |-> resp, r |-> ErrOf("empty response body"),
           open |-> IF open = "ok" THEN "empty" ELSE open]}
    ELSE {[resp |-> [resp EXCEPT !.pos = e], r |-> OkSome(SubSeq(resp.body, resp.pos + 1, e)),
           open |-> open] : e \in (resp.pos + 1)..Len(resp.body)}
         \cup (IF resp.pos >= Len(resp.body)
               THEN {[resp |-> resp, r |-> OkNone, open |-> open]} ELSE {})
         \cup {[resp |-> resp, r |-> ErrOf("error decoding response body"), open |-> open]}

\* UrlInput::chunk (lines 23-45)
UrlChunk(resp) ==
    UNION {IF o.r.tag = "Err" THEN {o} ELSE UrlRead(o.resp, o.open) : o \in Requested(resp)}

\* UrlInput::reset (lines 47-52)
UrlReset(resp) == Requested(resp)

IsFileKind == kind \in {"file", "gz", "targz"}

\* The histories after a chunk() that returned r: the payloads returned
\* since construction or the last successful reset(), kept while no call
\* has failed since.
CleanAfterChunk(r) == clean /\ r.tag # "Err"

TraceAfterChunk(r) ==
    IF ~CleanAfterChunk(r) THEN <<>>
    ELSE IF r.tag = "Some" THEN Append(trace, r.data) ELSE trace

\* The histories after a reset() that returned r: "reset_used" marks a
\* successful reset() of an Input that had already returned chunks.
ViaAfterReset(r) ==
    IF r.tag = "Err" THEN "-"
    ELSE IF clean /\ trace # <<>> THEN "reset_used" ELSE "reset"

\* A caller invokes chunk() on the FileInput.
FileChunkCall ==
    /\ IsFileKind
    /\ \E o \in FileChunk(handle) :
          /\ handle' = o.h
          /\ last' = [op |-> "chunk", r |-> o.r, wasOpen |-> handle.some, open |-> o.open]
          /\ clean' = CleanAfterChunk(o.r)
          /\ trace' = TraceAfterChunk(o.r)
          /\ via' = IF o.r.tag = "Err" THEN "-" ELSE via
    /\ UNCHANGED <<pumpVars, kind, content, cuts, archive, response>>

\* A caller invokes reset() on the FileInput.
FileResetCall ==
    /\ IsFileKind
    /\ \E o \in FileReset(handle) :
          /\ handle' = o.h
          /\ last' = [op |-> "reset", r |-> o.r, wasOpen |-> handle.some, open |-> o.open]
          /\ clean' = (o.r.tag = "Ok")
          /\ trace' = <<>>
          /\ via' = ViaAfterReset(o.r)
    /\ UNCHANGED <<pumpVars, kind, content, cuts, archive, response>>

\* A caller invokes chunk() on the UrlInput.
UrlChunkCall ==
    /\ kind = "url"
    /\ \E o \in UrlChunk(response) :
          /\ response' = o.resp
          /\ last' = [op |-> "chunk", r |-> o.r, wasOpen |-> response.some, open |-> o.open]
          /\ clean' = CleanAfterChunk(o.r)
          /\ trace' = TraceAfterChunk(o.r)
          /\ via' = IF o.r.tag = "Err" THEN "-" ELSE via
    /\ UNCHANGED <<pumpVars, kind, content, cuts, archive, handle>>

\* A caller invokes reset() on the UrlInput.
UrlResetCall ==
    /\ kind = "url"
    /\ \E o \in UrlReset(response) :
          /\ response' = o.resp
          /\ last' = [op |-> "reset", r |-> o.r, wasOpen |-> response.some, open |-> o.open]
          /\ clean' = (o.r.tag = "Ok")
          /\ trace' = <<>>
          /\ via' = ViaAfterReset(o.r)
    /\ UNCHANGED <<pumpVars, kind, content, cuts, archive, handle>>

NoCall == [op |-> "new", r |-> NoRes, wasOpen |-> FALSE, open |-> "-"]

\* No pump: a freshly constructed Input (FileInput::new, UrlInput::new) over
\* some source, driven by direct calls.
InitInput ==
    /\ procs = {}
    /\ rdr = <<>>
    /\ wtr = <<>>
    /\ pc = <<>>
    /\ is_processing = TRUE
    /\ rxAlive = TRUE
    /\ msgs = <<>>
    /\ sink = <<>>
    /\ readerLock = <<>>
    /\ writerLock = <<>>
    /\ rest = <<>>
    /\ res = <<>>
    /\ out = <<>>
    /\ werr = <<>>
    /\ got = <<>>
    /\ order = <<>>
    /\ nchunk = <<>>
    /\ nwrite = <<>>
    /\ wfail = <<>>
    /\ nsend = <<>>
    /\ atCancel = <<>>
    /\ kind \in {"file", "gz", "targz", "url"}
    /\ content \in Streams
    /\ cuts \in IF kind = "gz" THEN CutSets(Len(content)) ELSE {{}}
    /\ archive \in IF kind = "targz" THEN Archives(content) ELSE {<<>>}
    /\ handle = NoHandle
    /\ response = NoResponse
    /\ last = NoCall
    /\ trace = <<>>
    /\ clean = TRUE
    /\ via = "new"

NextInput ==
    \/ FileChunkCall
    \/ FileResetCall
    \/ UrlChunkCall
    \/ UrlResetCall

SpecInput == InitInput /\ [][NextInput]_vars

----------------------------------------------------------------------------
(* Pumps over dyn Inputs and sinks                                         *)

NotCancelled == [c |-> 0, w |-> 0, running |-> FALSE]

\* The Inputs, or the sinks, that the assignment f gives to the pumps.
Given(f) == {f[p] : p \in DOMAIN f}

\* The pumps ps have been spawned, with Inputs and sinks given to them in one
\* of the ways sharings, the Inputs holding streams drawn from streams; none
\* has run.
InitPump(ps, sharings, streams) ==
    /\ procs = ps
    /\ \E x \in sharings :
          /\ rdr = x.r
          /\ wtr = x.w
          /\ sink = [w \in Given(x.w) |-> <<>>]
          /\ readerLock = [i \in Given(x.r) |-> 0]
          /\ writerLock = [w \in Given(x.w) |-> 0]
          /\ rest \in [Given(x.r) -> streams]
          /\ order = [i \in Given(x.r) |-> <<>>]
    /\ pc = [p \in ps |-> "check"]
    /\ is_processing = TRUE
    /\ rxAlive = TRUE
    /\ msgs = <<>>
    /\ res = [p \in ps |-> NoRes]
    /\ out = [p \in ps |-> <<>>]
    /\ werr = [p \in ps |-> ""]
    /\ got = [p \in ps |-> <<>>]
    /\ nchunk = [p \in ps |-> 0]
    /\ nwrite = [p \in ps |-> 0]
    /\ wfail = [p \in ps |-> 0]
    /\ nsend = [p \in ps |-> 0]
    /\ atCancel = [p \in ps |-> NotCancelled]
    /\ kind = "dyn"
    /\ content = <<>>
    /\ cuts = {}
    /\ archive = <<>>
    /\ handle = NoHandle
    /\ response = NoResponse
    /\ last = NoCall
    /\ trace = <<>>
    /\ clean = TRUE
    /\ via = "new"

\* One pump over one Input and one sink.
Init == InitPump({1}, {[r |-> <<1>>, w |-> <<1>>]}, Streams)

Next ==
    \/ \E p \in procs : CheckFlag(p)
    \/ \E p \in procs : LockReader(p)
    \/ \E p \in procs : CallChunk(p)
    \/ \E p \in procs : Match(p)
    \/ \E p \in procs : LockWriter(p)
    \/ \E p \in procs : WriteOk(p)
    \/ \E p \in procs : WriteErr(p)
    \/ \E p \in procs : SendWriteErr(p)
    \/ \E p \in procs : SendChunkErr(p)
    \/ Cancel
    \/ DropReceiver

Spec == Init /\ [][Next]_vars

\* A step of pump p.
PumpStep(p) ==
    \/ CheckFlag(p)
    \/ LockReader(p)
    \/ CallChunk(p)
    \/ Match(p)
    \/ LockWriter(p)
    \/ WriteOk(p)
    \/ WriteErr(p)
    \/ SendWriteErr(p)
    \/ SendChunkErr(p)

\* The executor polls a pump that can run: a pump that stays able to take a
\* step takes one.
SpecFair == Spec /\ WF_vars(PumpStep(1))

\* Two pumps spawned over one shared Input and one shared sink.
PumpPair == {1, 2}

\* Longest stream of the shared Input.
MaxShared == 2

\* Streams of 'a' and '\n': chunks of text with different records.
SharedStreams == SeqsUpTo({97, 10}, MaxShared)

InitShared == InitPump(PumpPair, {[r |-> <<1, 1>>, w |-> <<1, 1>>]}, SharedStreams)

SpecShared == InitShared /\ [][Next]_vars

\* The ways two pumps share: same Input and same sink, same Input and
\* different sinks, different Inputs and same sink.
Sharings ==
    { [r |-> <<1, 1>>, w |-> <<1, 1>>],
      [r |-> <<1, 1>>, w |-> <<1, 2>>],
      [r |-> <<1, 2>>, w |-> <<1, 1>>] }

\* Longest stream of an Input in the study of the locks.
MaxLockLen == 1

LockStreams == SeqsUpTo({97}, MaxLockLen)

InitLocks == InitPump(PumpPair, Sharings, LockStreams)

SpecLocks == InitLocks /\ [][Next]_vars

----------------------------------------------------------------------------
(* What the claims speak of, stated apart from the definitions above       *)

IsPrefix(s, t) == Len(s) <= Len(t) /\ SubSeq(t, 1, Len(s)) = s

RECURSIVE Flatten(_)
Flatten(ss) == IF ss = <<>> THEN <<>> ELSE Head(ss) \o Flatten(Tail(ss))

\* Valid text: no byte that UTF-8 excludes.
ValidText(bytes) == \A i \in 1..Len(bytes) : bytes[i] # 255

\* s with its trailing whitespace removed.
Stripped(s) ==
    LET keep == {i \in 1..Len(s) : s[i] \notin {32, 10}}
    IN  IF keep = {} THEN <<>>
        ELSE SubSeq(s, 1, CHOOSE i \in keep : \A j \in keep : j <= i)

\* "0.0.0.0 " + trimmed entry + "\n"
RecordOf(entry) == <<48, 46, 48, 46, 48, 46, 48, 32>> \o Stripped(entry) \o <<10>>

RECURSIVE RecordsOf(_)
RecordsOf(entries) ==
    IF entries = <<>> THEN <<>> ELSE RecordOf(Head(entries)) \o RecordsOf(Tail(entries))

\* The newline-delimited entries of a text; a final newline ends the last
\* entry and starts no further one.
RECURSIVE EntriesOf(_)
EntriesOf(text) ==
    IF text = <<>> THEN <<>>
    ELSE LET nls == {i \in 1..Len(text) : text[i] = 10}
         IN  IF nls = {} THEN <<text>>
             ELSE LET n == CHOOSE i \in nls : \A j \in nls : i <= j
                  IN  <<SubSeq(text, 1, n - 1)>> \o EntriesOf(SubSeq(text, n + 1, Len(text)))

\* A chunk that is exactly one newline-terminated entry of valid text.
OneEntry(c) ==
    /\ ValidText(c)
    /\ c # <<>>
    /\ \A i \in 1..Len(c) : c[i] = 10 <=> i = Len(c)

ValidChunks(chunks) == SelectSeq(chunks, ValidText)

Returned(p) == pc[p] = "done"
Stopped(p) == pc[p] \in {"done", "panicked"}

\* Pump p makes no chunk() call, no sink write and no channel send in the step.
Quiet(p) ==
    /\ nchunk'[p] = nchunk[p]
    /\ nwrite'[p] = nwrite[p]
    /\ nsend'[p] = nsend[p]
    /\ sink' = sink
    /\ msgs' = msgs
    /\ rest' = rest

----------------------------------------------------------------------------
\* C1: a pump that finds the cancellation flag false at the top of an
\* iteration returns in that step without a chunk() call, a sink write or a
\* channel send, and a pump that has returned never acts again; so a pump
\* cancelled before its first iteration never reads, writes or sends.
C1_CancelReturnsAtOnce ==
    [][\A p \in procs :
          /\ (pc[p] = "check" /\ ~is_processing /\ pc'[p] # pc[p]) => (Returned(p)' /\ Quiet(p))
          /\ Stopped(p) => (pc'[p] = pc[p] /\ Quiet(p))]_vars

C1_Witness ==
    \E p \in procs : Returned(p) /\ ~is_processing /\ nchunk[p] = 0 /\ nwrite[p] = 0
                     /\ nsend[p] = 0 /\ rest[rdr[p]] # <<>>

\* C2: once the pump has drained an Input of valid text without a write
\* failure, the sink holds one record per newline-delimited entry of the
\* stream, in order, however the Input cut the stream into chunks.
C2_RecordPerEntry ==
    \A p \in procs :
        (Returned(p) /\ res[p].tag = "None" /\ wfail[p] = 0 /\ ValidText(Flatten(got[p])))
            => sink[wtr[p]] = RecordsOf(EntriesOf(Flatten(got[p])))

\* C3: when every chunk was one newline-terminated entry of valid text, no
\* write failed and the flag stayed true, the sink of a pump that has
\* returned is the concatenation of one record per chunk, in chunk order.
C3_RecordPerLineChunk ==
    \A p \in procs :
        (Returned(p) /\ is_processing /\ wfail[p] = 0
            /\ \A i \in 1..Len(got[p]) : OneEntry(got[p][i]))
            => sink[wtr[p]] = RecordsOf(got[p])

C3_Witness ==
    \E p \in procs :
        /\ Returned(p) /\ is_processing /\ wfail[p] = 0 /\ res[p].tag = "None"
        /\ Len(got[p]) >= 2
        /\ \A i \in 1..Len(got[p]) : OneEntry(got[p][i])
        /\ \E i \in 1..Len(got[p]) : Stripped(got[p][i]) # <<>>
        /\ sink[wtr[p]] = RecordsOf(got[p])

\* C4: after chunk() returned Err the pump calls send exactly once, with an
\* Error carrying the error's description, which the channel accepts while
\* a receiver exists; it then leaves the loop and makes no further chunk()
\* call and no further write.
C4_ChunkErrSendsOnceAndStops ==
    [][\A p \in procs :
          /\ (pc[p] = "match" /\ res[p].tag = "Err" /\ pc'[p] # pc[p])
                => (pc'[p] = "send_chunk_err" /\ Quiet(p))
          /\ (pc[p] = "send_chunk_err" /\ pc'[p] # pc[p])
                => /\ nsend'[p] = nsend[p] + 1
                   /\ rxAlive => (msgs' = Append(msgs, ErrorMsg(res[p].err)) /\ Returned(p)')
                   /\ ~rxAlive => msgs' = msgs
                   /\ Stopped(p)'
                   /\ nchunk'[p] = nchunk[p] /\ nwrite'[p] = nwrite[p]
                   /\ rest' = rest /\ sink' = sink
          /\ Stopped(p) => (pc'[p] = pc[p] /\ Quiet(p))]_vars

C4_Witness ==
    \E p \in procs :
        /\ Returned(p) /\ res[p].tag = "Err" /\ nsend[p] = 1 /\ got[p] # <<>>
        /\ msgs = <<ErrorMsg(res[p].err)>>
        /\ rest[rdr[p]] # <<>>

\* C5: a chunk that is not valid UTF-8 sends the pump back to the top of the
\* loop with nothing written or sent, and absent write failures the sink
\* always holds the records of the valid chunks received, in order.
C5_InvalidChunkSkipped ==
    /\ [][\A p \in procs :
            (pc[p] = "match" /\ res[p].tag = "Some" /\ ~ValidText(res[p].data) /\ pc'[p] # pc[p])
                => (pc'[p] = "check" /\ Quiet(p))]_vars
    /\ [](\A p \in procs :
            (pc[p] \in {"check", "done", "panicked"} /\ wfail[p] = 0)
                => sink[wtr[p]] = RecordsOf(ValidChunks(got[p])))

C5_Witness ==
    \E p \in procs :
        /\ Returned(p) /\ res[p].tag = "None" /\ wfail[p] = 0 /\ Len(got[p]) = 3
        /\ ValidText(got[p][1]) /\ ~ValidText(got[p][2]) /\ ValidText(got[p][3])
        /\ sink[wtr[p]] = RecordOf(got[p][1]) \o RecordOf(got[p][3])

\* C6: after a failed write the pump sends one Error with the write error's
\* description and goes on to the next iteration.
C6_WriteFailureNotFatal ==
    [][\A p \in procs :
          (pc[p] = "send_write_err" /\ pc'[p] # pc[p])
              => (pc'[p] = "check" /\ msgs' = Append(msgs, ErrorMsg(werr[p])))]_vars

\* C7: whatever chunk() returns, whatever the writes do and whatever the
\* state of the channel, the pump never panics.
C7_NeverPanics == \A p \in procs : pc[p] # "panicked"

\* C8: a chunk() on an Unopened Input whose open fails (file missing, member
\* not found, status not OK, zero-length body) returns Err and leaves the
\* Input Unopened.
C8_OpenFailureLeavesUnopened ==
    (last.op = "chunk" /\ ~last.wasOpen /\ last.open \in {"file", "member", "status", "empty"})
        => (last.r.tag = "Err" /\ ~handle.some /\ ~response.some)

\* The chunks a freshly constructed FileInput yields when drained.
RECURSIVE DrainFrom(_)
DrainFrom(h) ==
    LET o == ReadOk(h)
    IN  IF o.r.tag = "Some" THEN <<o.r.data>> \o DrainFrom(o.h) ELSE <<>>

FreshDrain ==
    LET opened == {o \in InitHandle(NoHandle) : o.r.tag = "Ok"}
    IN  IF opened = {} THEN <<>> ELSE DrainFrom((CHOOSE o \in opened : TRUE).h)

\* C9: for a file-backed Input, the chunks returned since construction or
\* since the last successful reset(), whatever was read before it, are the
\* first chunks a fresh Input yields, and all of them once chunk() returns
\* None.
C9_ResetReplays ==
    (IsFileKind /\ clean)
        => /\ IsPrefix(trace, FreshDrain)
           /\ (last.op = "chunk" /\ last.r.tag = "None") => trace = FreshDrain

C9_Witness ==
    /\ IsFileKind /\ clean /\ via = "reset_used"
    /\ last.op = "chunk" /\ last.r.tag = "None"
    /\ Len(trace) >= 2 /\ trace = FreshDrain
    /\ trace[1] # trace[2]

\* C10: every reset() of a Network Input issues a new request, and the
\* chunks returned after a successful reset() start at byte zero of the body.
C10_UrlResetRestarts ==
    kind = "url" =>
        /\ last.op = "reset" => last.open # "-"
        /\ (via \in {"reset", "reset_used"} /\ clean) => IsPrefix(Flatten(trace), content)

\* C11: a chunk() of a Network Input returns Err whenever the response held
\* has a status other than OK or advertised a content-length of zero; a
\* response with status OK and a non-zero or unadvertised content-length is
\* never refused, it yields Some chunks and then None, or a transport error.
C11_UrlRefusesOnlyBadResponses ==
    (kind = "url" /\ last.op = "chunk" /\ response.some)
        => /\ (response.status # StatusOK \/ response.clen = 0) => last.r.tag = "Err"
           /\ (response.status = StatusOK /\ response.clen # 0)
                 => last.r.err \notin {"status code", "empty response body"}

\* The text ends with a newline, or is empty.
NewlineTerminated(text) == text = <<>> \/ text[Len(text)] = 10

\* The lines of a text, each with its newline.
LinesOf(text) == [i \in 1..Len(EntriesOf(text)) |-> Append(EntriesOf(text)[i], 10)]

IsMember(i) == archive[i].ok /\ archive[i].path = WantedPath
IsBound(i) == IsMember(i) /\ \A j \in 1..(i - 1) : ~IsMember(j)

\* C13: a tar-gz Input is bound to the first archive entry whose path is the
\* configured member path, and the chunks it returns are that entry's
\* content; when no entry has that path every chunk() and reset() returns
\* Err, never None, and no handle is set.
C13_TarGzBindsFirstMember ==
    kind = "targz" =>
        /\ \A i \in 1..Len(archive) :
              IsBound(i) =>
                 /\ handle.some => handle.data = archive[i].data
                 /\ clean => IsPrefix(Flatten(trace), archive[i].data)
                 /\ (clean /\ last.op = "chunk" /\ last.r.tag = "None")
                       => Flatten(trace) = archive[i].data
        /\ (\A i \in 1..Len(archive) : ~IsMember(i))
              => (~handle.some /\ (last.op \in {"chunk", "reset"} => last.r.tag = "Err"))

C13_Witness ==
    /\ kind = "targz" /\ clean /\ Len(archive) = 2
    /\ IsBound(1) /\ IsMember(2) /\ archive[1].data # archive[2].data
    /\ last.op = "chunk" /\ last.r.tag = "None"
    /\ trace # <<>> /\ Flatten(trace) = archive[1].data

\* C14: a pump holds the lock of its Input only for the chunk() call: the
\* lock is free again before the pump waits for the sink's lock, writes or
\* sends a message, so no pump holds both locks at once.
C14_InputLockOnlyDuringChunk ==
    \A p \in procs :
        /\ pc[p] \in {"lock_writer", "write", "send_write_err", "send_chunk_err"}
              => readerLock[rdr[p]] # p
        /\ ~(readerLock[rdr[p]] = p /\ writerLock[wtr[p]] = p)

\* C16: a pump that was running when the flag fell makes at most one more
\* chunk() call and at most one more sink write, and it ends by returning.
C16_CancelWithinOneIteration ==
    \A p \in procs :
        (~is_processing /\ atCancel[p].running)
            => /\ nchunk[p] <= atCancel[p].c + 1
               /\ nwrite[p] <= atCancel[p].w + 1
               /\ pc[p] # "panicked"

\* The messages of a run of pump p: one Error per failed write, then one for
\* the chunk() error that ended the run, if one did.
ExpectedMsgs(p) ==
    [i \in 1..wfail[p] |-> [type |-> "Error", text |-> "write failed"]]
    \o (IF res[p].tag = "Err" THEN <<[type |-> "Error", text |-> res[p].err]>> ELSE <<>>)

\* C17: when a pump has returned it has sent exactly one Error per failed
\* write and one for a terminating chunk() error, and nothing else: nothing
\* for an undecodable chunk, for the end of the stream or for cancellation.
C17_MessagesAreTheFailures ==
    \A p \in procs :
        Returned(p) => /\ nsend[p] = Len(ExpectedMsgs(p))
                       /\ procs = {p} => msgs = ExpectedMsgs(p)

C17_Witness ==
    \E p \in procs :
        /\ Returned(p) /\ wfail[p] = 1 /\ res[p].tag = "Err" /\ Len(msgs) = 2
        /\ \E i \in 1..Len(got[p]) : ~ValidText(got[p][i])

\* C18: under fair scheduling every pump eventually returns.
C18_EventuallyReturns == <>(\A p \in procs : Returned(p))

\* s is an interleaving of the sequences a and b.
RECURSIVE IsMerge(_, _, _)
IsMerge(s, a, b) ==
    IF s = <<>> THEN a = <<>> /\ b = <<>>
    ELSE \/ a # <<>> /\ Head(a) = Head(s) /\ IsMerge(Tail(s), Tail(a), b)
         \/ b # <<>> /\ Head(b) = Head(s) /\ IsMerge(Tail(s), a, Tail(b))

\* bytes is an interleaving, record by record, of the records of the chunks
\* a and of the chunks b.
RECURSIVE IsMergeOfRecords(_, _, _)
IsMergeOfRecords(bytes, a, b) ==
    IF a = <<>> /\ b = <<>> THEN bytes = <<>>
    ELSE \/ /\ a # <<>>
            /\ IsPrefix(RecordOf(Head(a)), bytes)
            /\ IsMergeOfRecords(SubSeq(bytes, Len(RecordOf(Head(a))) + 1, Len(bytes)),
                                Tail(a), b)
         \/ /\ b # <<>>
            /\ IsPrefix(RecordOf(Head(b)), bytes)
            /\ IsMergeOfRecords(SubSeq(bytes, Len(RecordOf(Head(b))) + 1, Len(bytes)),
                                a, Tail(b))

\* Pump p is between iterations, or has stopped.
Idle(p) == pc[p] \in {"check", "lock_reader", "done", "panicked"}

\* C15: of the pumps that share an Input at most one is inside chunk() at
\* any time, every chunk the Input returned was received by exactly one of
\* them, and once no pump is inside an iteration, with every chunk decodable
\* and no write failed, their sink holds exactly one record per chunk.
C15_SharedInputOneChunkEach ==
    \A p, q \in procs :
        (p # q /\ rdr[p] = rdr[q]) =>
            /\ ~(pc[p] = "chunk" /\ pc[q] = "chunk")
            /\ procs = {p, q} => IsMerge(order[rdr[p]], got[p], got[q])
            /\ (/\ procs = {p, q} /\ wtr[p] = wtr[q]
                /\ Idle(p) /\ Idle(q) /\ wfail[p] = 0 /\ wfail[q] = 0
                /\ ValidText(Flatten(order[rdr[p]])))
                  => IsMergeOfRecords(sink[wtr[p]], got[p], got[q])

C15_Witness ==
    /\ procs = {1, 2} /\ rdr[1] = rdr[2] /\ wtr[1] = wtr[2]
    /\ Returned(1) /\ Returned(2) /\ wfail[1] = 0 /\ wfail[2] = 0
    /\ Len(got[1]) = 1 /\ Len(got[2]) = 1 /\ got[1] # got[2]
    /\ ValidText(Flatten(order[rdr[1]]))
    /\ Len(order[rdr[1]]) = 2
    /\ IsMergeOfRecords(sink[wtr[1]], got[1], got[2])

\* C19: of two pumps that share an Input and a sink, and absent write
\* failures, the sink holds the records of the decodable chunks in the order
\* in which the Input returned them: always a prefix of them, and all of
\* them once no pump is inside an iteration.
C19_RecordsInReadOrder ==
    \A p, q \in procs :
        (p # q /\ rdr[p] = rdr[q] /\ wtr[p] = wtr[q] /\ wfail[p] = 0 /\ wfail[q] = 0) =>
            /\ IsPrefix(sink[wtr[p]], RecordsOf(ValidChunks(order[rdr[p]])))
            /\ (Idle(p) /\ Idle(q)) => sink[wtr[p]] = RecordsOf(ValidChunks(order[rdr[p]]))

C19_Witness ==
    /\ procs = {1, 2} /\ rdr[1] = rdr[2] /\ wtr[1] = wtr[2]
    /\ Returned(1) /\ Returned(2) /\ wfail[1] = 0 /\ wfail[2] = 0
    /\ Len(order[rdr[1]]) = 2
    /\ got[2] = <<order[rdr[1]][1]>> /\ got[1] = <<order[rdr[1]][2]>>
    /\ ValidText(Flatten(order[rdr[1]]))
    /\ RecordOf(got[1][1]) # RecordOf(got[2][1])
    /\ sink[wtr[1]] = RecordOf(got[2][1]) \o RecordOf(got[1][1])

\* Pump p waits for a lock that another pump holds.
Waiting(p) ==
    \/ pc[p] = "lock_reader" /\ readerLock[rdr[p]] \notin {0, p}
    \/ pc[p] = "lock_writer" /\ writerLock[wtr[p]] \notin {0, p}

\* C20: however the pumps share Inputs and sinks, as long as a pump has not
\* stopped there is a pump that has not stopped and does not wait for a
\* lock.
C20_NoDeadlock ==
    LET live == {p \in procs : ~Stopped(p)}
    IN  live # {} => \E p \in live : ~Waiting(p)

C20_Witness ==
    \E p, q \in procs :
        /\ p # q /\ rdr[p] # rdr[q] /\ wtr[p] = wtr[q]
        /\ pc[p] = "lock_writer" /\ readerLock[rdr[p]] = p
        /\ writerLock[wtr[p]] = q /\ readerLock[rdr[q]] = q

====
